---- MODULE Spec2Model ----
(***************************************************************************)
(* Model of heatmap_dendrogram.py: the incomplete-data Hamming similarity   *)
(* (hamming_similarity, calculate_pairwise_cognacy) and the perturbation    *)
(* simulation (create_random_matrix, simulate_random_variation) together    *)
(* with the two click commands, plot and simulate, that drive them.         *)
(*                                                                         *)
(* Numbers.  numpy/pandas compute in IEEE doubles.  The model keeps every   *)
(* finite value as an exact reduced fraction and keeps NaN as a value of    *)
(* its own, with numpy's rules: NaN is absorbing under + and *, 0/0 is NaN, *)
(* and every comparison with NaN is false.  Rounding of doubles is not      *)
(* modelled.                                                               *)
(***************************************************************************)
EXTENDS Integers, Sequences, FiniteSets, TLC

(***************************************************************************)
(* Bounds of the model.                                                    *)
(***************************************************************************)
MaxN == 2        \* languages (rows) of an enumerated data matrix
MaxP == 2        \* glosses (columns) of an enumerated data matrix
MaxClass == 2    \* cognacy classes 1..MaxClass
MaxSpread == 1   \* --spread ranges over 0..MaxSpread
MaxMean == 5     \* --mean ranges over {-MaxMean, 0, MaxMean}
MaxSim == 2      \* --count ranges over 0..MaxSim

(***************************************************************************)
(* Floating point values: NaN, or the reduced fraction num/den, den > 0.   *)
(***************************************************************************)
Abs(x) == IF x < 0 THEN -x ELSE x

RECURSIVE GCD(_, _)
GCD(a, b) == IF b = 0 THEN a ELSE GCD(b, a % b)

NaN == [nan |-> TRUE, num |-> 0, den |-> 1]

\* The fraction a/b (b # 0) in lowest terms with a positive denominator.
Rat(a, b) ==
    LET g == GCD(Abs(a), Abs(b))
        s == IF b < 0 THEN -1 ELSE 1
    IN  [nan |-> FALSE, num |-> (s * a) \div g, den |-> Abs(b) \div g]

FloatOf(k) == [nan |-> FALSE, num |-> k, den |-> 1]

FAdd(x, y) ==
    IF x.nan \/ y.nan THEN NaN
    ELSE Rat(x.num * y.den + y.num * x.den, x.den * y.den)

FScale(x, k) == IF x.nan THEN NaN ELSE Rat(x.num * k, x.den)

FHalf(x) == IF x.nan THEN NaN ELSE Rat(x.num, x.den * 2)

\* x > k and x < k for an integer k; False whenever x is NaN.
FGt(x, k) == ~x.nan /\ x.num > k * x.den
FLt(x, k) == ~x.nan /\ x.num < k * x.den

\* numpy's elementwise a / b on counts: 0/0 is NaN (a RuntimeWarning, no
\* exception).  num_cog <= num_comp, so b = 0 comes with a = 0 only.
np_divide(a, b) == IF b = 0 THEN NaN ELSE Rat(a, b)

(***************************************************************************)
(* (1) The data matrix.  A cell is a cognacy class or NA, the value        *)
(* pd.to_numeric(errors='coerce') gives a cell that is no number.          *)
(***************************************************************************)
NA == 0

Cells == 0 .. MaxClass

Rows(M) == 1 .. Len(M)
Cols(M) == IF Len(M) = 0 THEN {} ELSE 1 .. Len(M[1])

\* The worked example of the module commentary.
WorkedExample == << <<1, 1, 1, NA>>, <<1, NA, 2, 1>>, <<2, 2, 3, 1>> >>

DataMatrices ==
    UNION { [1 .. np[1] -> [1 .. np[2] -> Cells]] :
            np \in (1 .. MaxN) \X (1 .. MaxP) }

(***************************************************************************)
(* (2) hamming_similarity                                                  *)
(***************************************************************************)
\* Variant: a gloss missing in both languages compares as equal (NaN - NaN = 0).
lang_comp_missing_equal(D, i, j) ==
    [k \in Cols(D) |->
        IF D[i][k] = NA /\ D[j][k] = NA THEN FloatOf(0)
        ELSE IF D[i][k] = NA \/ D[j][k] = NA THEN NaN
        ELSE FloatOf(D[i][k] - D[j][k])]

\* data_mat.iloc[i, :] - data_mat.iloc[j, :], with INT - NaN = NaN.
lang_comp(D, i, j) ==
    [k \in Cols(D) |->
        IF D[i][k] = NA \/ D[j][k] = NA THEN NaN
        ELSE FloatOf(D[i][k] - D[j][k])]

\* Variant: the pre-implemented Hamming metric, which divides by all p glosses.
num_comp_all_glosses(lc) == Len(lc)

\* p - lang_comp.isnull().sum()
num_comp(lc) == Len(lc) - Cardinality({k \in DOMAIN lc : lc[k].nan})

\* Variant: (lang_comp == 0).count(), the length of the boolean row.
num_cog_count_mask(lc) == Len(lc)

\* lang_comp[lang_comp == 0].count()
num_cog(lc) == Cardinality({k \in DOMAIN lc : ~lc[k].nan /\ lc[k].num = 0})

hamming_similarity(D) ==
    [i \in Rows(D) |-> [j \in Rows(D) |->
        LET lc == lang_comp(D, i, j)
        IN  np_divide(num_cog(lc), num_comp(lc))]]

\* hamming_similarity(cognacy_matrix) * 100
Times100(S) == [i \in Rows(S) |-> [j \in Rows(S) |-> FScale(S[i][j], 100)]]

(***************************************************************************)
(* (4) Simulation                                                          *)
(***************************************************************************)
Kinds == {"uniform", "binomial"}

\* What np.random can return for a dim x dim draw.
\* randint(-spread, high=spread) is an integer in [-spread, spread);
\* binomial(n=2*spread, p=0.5) is an integer in 0 .. 2*spread.
Draws(d, s, n) ==
    IF d = "binomial" THEN [1 .. n -> [1 .. n -> 0 .. 2 * s]]
    ELSE [1 .. n -> [1 .. n -> (-s) .. (s - 1)]]

\* Variant: the binomial draw is not centred (the "- spread" is left out).
shifted_uncentred(d, m, s, raw) ==
    [a \in Rows(raw) |-> [b \in Rows(raw) |-> raw[a][b] + m]]

\* The matrix before it is made symmetric.
shifted(d, m, s, raw) ==
    [a \in Rows(raw) |-> [b \in Rows(raw) |->
        IF d = "binomial" THEN raw[a][b] - s + m ELSE raw[a][b] + m]]

\* Variant: the draw is returned as it is, not averaged with its transpose.
symmetrize_skipped(M) ==
    [a \in Rows(M) |-> [b \in Rows(M) |-> FloatOf(M[a][b])]]

\* (random_matrix + random_matrix.T) / 2
symmetrize(M) ==
    [a \in Rows(M) |-> [b \in Rows(M) |-> FHalf(FloatOf(M[a][b] + M[b][a]))]]

create_random_matrix(d, m, s, raw) == symmetrize(shifted(d, m, s, raw))

\* data_set + random_matrix
MatAdd(S, R) == [a \in Rows(S) |-> [b \in Rows(S) |-> FAdd(S[a][b], R[a][b])]]

\* Variant: values above 100 are cut to 100.
ClampHigh_to_100(M) ==
    [a \in Rows(M) |-> [b \in Rows(M) |->
        IF FGt(M[a][b], 100) THEN FloatOf(100) ELSE M[a][b]]]

\* data_plus_random_matrix[data_plus_random_matrix > 100] = 99
ClampHigh(M) ==
    [a \in Rows(M) |-> [b \in Rows(M) |->
        IF FGt(M[a][b], 100) THEN FloatOf(99) ELSE M[a][b]]]

\* data_plus_random_matrix[data_plus_random_matrix < 0] = 0
ClampLow(M) ==
    [a \in Rows(M) |-> [b \in Rows(M) |->
        IF FLt(M[a][b], 0) THEN FloatOf(0) ELSE M[a][b]]]

\* data_plus_random_matrix.values[[np.arange(dim[0])] * 2] = 100
\* The list of two index arrays addresses the cells (k, k), as the comment in
\* the source says it must ("diagonals still have to be 100").
SetDiagonal(M) ==
    [a \in Rows(M) |-> [b \in Rows(M) |->
        IF a = b THEN FloatOf(100) ELSE M[a][b]]]

perturb(S, R) == SetDiagonal(ClampLow(ClampHigh(MatAdd(S, R))))

\* Variant: the sum and the clamps are written into data_set itself
\* (data_set += random_matrix), so the next pass starts from the perturbed one.
data_set_after_in_place(S, P) == P

\* data_set after a pass.  data_set + random_matrix builds a new frame, and
\* the three assignments that follow write into that new frame only.
data_set_after(S, P) == S

(***************************************************************************)
(* State                                                                   *)
(***************************************************************************)
VARIABLES
    pc,                       \* position in the command
    entry,                    \* "plot", "simulate" (click commands) or "direct"
    data_mat,                 \* what make_datamatrix_from_spreadsheet returns
    pairwise_cognacy,         \* the similarity matrix; data_set in the simulation
    distr, spread, mean, no_sim,
    i,                        \* iterations of the simulation loop completed
    raw_matrix,               \* the np.random draw of the pass in progress
    random_matrix,            \* what create_random_matrix returned in this pass
    data_plus_random_matrix,  \* the perturbed matrix of this pass
    plots,                    \* matrices handed to plot_heatmap_with_dendrogram
    error                     \* "none" or the exception that ended the command

vars == <<pc, entry, data_mat, pairwise_cognacy, distr, spread, mean, no_sim,
          i, raw_matrix, random_matrix, data_plus_random_matrix, plots, error>>

simvars == <<distr, spread, mean, no_sim>>
loopvars == <<i, raw_matrix, random_matrix, data_plus_random_matrix>>

None == << >>

(***************************************************************************)
(* The plot command                                                        *)
(***************************************************************************)
InitPlot ==
    /\ pc = "load"
    /\ entry = "plot"
    /\ data_mat \in DataMatrices \cup {WorkedExample}
    /\ pairwise_cognacy = None
    /\ distr = "uniform" /\ spread = 0 /\ mean = 0 /\ no_sim = 0
    /\ i = 0
    /\ raw_matrix = None /\ random_matrix = None
    /\ data_plus_random_matrix = None
    /\ plots = 0
    /\ error = "none"

\* pairwise_cognacy = calculate_pairwise_cognacy(infile)
calculate_pairwise_cognacy ==
    /\ pc = "load"
    /\ pairwise_cognacy' = Times100(hamming_similarity(data_mat))
    /\ pc' = IF entry = "plot" THEN "plot" ELSE "simulating"
    /\ UNCHANGED <<entry, data_mat, simvars, loopvars, plots, error>>

\* The two plot_heatmap_with_dendrogram calls of plot().
plot ==
    /\ pc = "plot"
    /\ plots' = plots + 2
    /\ pc' = "done"
    /\ UNCHANGED <<entry, data_mat, pairwise_cognacy, simvars, loopvars, error>>

NextPlot == calculate_pairwise_cognacy \/ plot

Spec == InitPlot /\ [][NextPlot]_vars

(***************************************************************************)
(* The simulate command, and simulate_random_variation called directly     *)
(***************************************************************************)
\* Input files of the simulate command: identical languages, languages with
\* no cognate, languages with no gloss in common, a language with no gloss at
\* all, four cognates in five, one cognate in three, and a single language.
SimulateInfiles ==
    { << <<1, 1>>, <<1, 1>> >>,
      << <<1, 1>>, <<2, 2>> >>,
      << <<1, NA>>, <<NA, 1>> >>,
      << <<NA, NA>>, <<1, 2>> >>,
      << <<1, 1, 1, 1, 1>>, <<1, 1, 1, 1, 2>> >>,
      << <<1, 1, 2>>, <<1, 2, 1>> >>,
      << <<1>> >> }

\* data_set arguments of a direct call: the matrices the files above give.
DirectDataSets == { Times100(hamming_similarity(D)) : D \in SimulateInfiles }

DistrInputs == Kinds \cup {"normal"}
MeanInputs == {-MaxMean, 0, MaxMean}

InitSimulate ==
    /\ entry \in {"simulate", "direct"}
    /\ IF entry = "simulate"
       THEN /\ pc = "parse"
            /\ data_mat \in SimulateInfiles
            /\ pairwise_cognacy = None
       ELSE /\ pc = "simulating"
            /\ data_mat = None
            /\ pairwise_cognacy \in DirectDataSets
    /\ distr \in DistrInputs
    /\ spread \in 0 .. MaxSpread
    /\ mean \in MeanInputs
    /\ no_sim \in 0 .. MaxSim
    /\ i = 0
    /\ raw_matrix = None /\ random_matrix = None
    /\ data_plus_random_matrix = None
    /\ plots = 0
    /\ error = "none"

\* click.Choice(['uniform', 'binomial']) on --distr, before simulate() runs.
simulate_parse_options ==
    /\ pc = "parse"
    /\ IF distr \in Kinds
       THEN pc' = "load" /\ error' = error
       ELSE pc' = "error" /\ error' = "UsageError"
    /\ UNCHANGED <<entry, data_mat, pairwise_cognacy, simvars, loopvars, plots>>

\* The body of the for loop up to the plot call: draw, add, clamp, reset the
\* diagonal.
simulate_iteration ==
    /\ pc = "simulating"
    /\ i < no_sim
    /\ distr \in Kinds
    /\ \E raw \in Draws(distr, spread, Len(pairwise_cognacy)) :
        LET noise == create_random_matrix(distr, mean, spread, raw)
        IN  /\ raw_matrix' = raw
            /\ random_matrix' = noise
            /\ data_plus_random_matrix' = perturb(pairwise_cognacy, noise)
            /\ pairwise_cognacy' =
                   data_set_after(pairwise_cognacy,
                                  perturb(pairwise_cognacy, noise))
    /\ pc' = "plotting"
    /\ UNCHANGED <<entry, data_mat, simvars, i, plots, error>>

\* plot_heatmap_with_dendrogram(data_plus_random_matrix, ploti, linkage)
\* returns and the loop goes on.  The matrices of this pass are rebound by the
\* next pass before anything reads them; the model drops them here.
simulate_plot ==
    /\ pc = "plotting"
    /\ plots' = plots + 1
    /\ i' = i + 1
    /\ raw_matrix' = None /\ random_matrix' = None
    /\ data_plus_random_matrix' = None
    /\ pc' = "simulating"
    /\ UNCHANGED <<entry, data_mat, pairwise_cognacy, simvars, error>>

\* create_random_matrix raises: randint(-spread, high=spread) with spread = 0
\* has an empty range (ValueError); with a distr that is neither kind no branch
\* binds random_matrix before the return (UnboundLocalError).
create_random_matrix_raises ==
    /\ pc = "simulating"
    /\ i < no_sim
    /\ \/ distr = "uniform" /\ spread = 0 /\ error' = "ValueError"
       \/ distr \notin Kinds /\ error' = "UnboundLocalError"
    /\ pc' = "error"
    /\ UNCHANGED <<entry, data_mat, pairwise_cognacy, simvars, loopvars, plots>>

\* range(no_sim) is exhausted.
simulate_return ==
    /\ pc = "simulating"
    /\ i = no_sim
    /\ pc' = "done"
    /\ UNCHANGED <<entry, data_mat, pairwise_cognacy, simvars, loopvars, plots,
                   error>>

NextSimulate ==
    \/ simulate_parse_options
    \/ calculate_pairwise_cognacy
    \/ simulate_iteration
    \/ simulate_plot
    \/ create_random_matrix_raises
    \/ simulate_return

SpecSimulate == InitSimulate /\ [][NextSimulate]_vars

(***************************************************************************)
(* Properties of the similarity matrix                                     *)
(***************************************************************************)
\* The counts as the specification words them, on the data matrix itself.
ComparableCount(D, a, b) ==
    Cardinality({k \in Cols(D) : D[a][k] # NA /\ D[b][k] # NA})

CognateCount(D, a, b) ==
    Cardinality({k \in Cols(D) :
        D[a][k] # NA /\ D[b][k] # NA /\ D[a][k] = D[b][k]})

Computed == pairwise_cognacy # None

\* calculate_pairwise_cognacy has just returned its matrix to plot().
Returned == pc = "plot"

\* Python's ==, <= on floats: false when an operand is NaN.
FEq(x, y) == ~x.nan /\ ~y.nan /\ x = y
InPercentRange(x) == ~x.nan /\ ~FLt(x, 0) /\ ~FGt(x, 100)

\* C1: every ordered pair of items with at least one feature defined on both
\* sides gets exactly 100 * cognate_count / comparable_count, where features
\* missing on either side (missing-vs-missing included) are not counted.
C1_ExactPercentage ==
    Returned =>
        \A a \in Rows(data_mat) : \A b \in Rows(data_mat) :
            LET comparable_count == ComparableCount(data_mat, a, b)
            IN  comparable_count >= 1 =>
                    pairwise_cognacy[a][b] =
                        Rat(100 * CognateCount(data_mat, a, b), comparable_count)

\* A computed matrix with a pair that has a gloss missing on one side only and
\* is cognate on some but not all of the glosses it can be compared on.
C1_Witness ==
    /\ Returned
    /\ \E a \in Rows(data_mat) : \E b \in Rows(data_mat) :
        /\ a # b
        /\ 0 < CognateCount(data_mat, a, b)
        /\ CognateCount(data_mat, a, b) < ComparableCount(data_mat, a, b)
        /\ \E k \in Cols(data_mat) : data_mat[a][k] = NA /\ data_mat[b][k] # NA

C3_ValidSimilarityMatrix ==
    Computed =>
        \A a \in Rows(data_mat) : \A b \in Rows(data_mat) :
            /\ FEq(pairwise_cognacy[a][b], pairwise_cognacy[b][a])
            /\ a = b => FEq(pairwise_cognacy[a][a], FloatOf(100))
            /\ a # b => InPercentRange(pairwise_cognacy[a][b])

\* C4 as claimed: when some pair of items (an item with itself included) has
\* no comparable feature, the computation ends in an explicit "undefined
\* similarity" error and returns no matrix.
C4_UndefinedSimilarityFailsFast ==
    (pc # "load" /\ \E a \in Rows(data_mat) : \E b \in Rows(data_mat) :
                        ComparableCount(data_mat, a, b) = 0) =>
        /\ error = "undefined similarity"
        /\ ~Computed

\* The data matrix with a feature column appended that is missing everywhere.
AppendMissingColumn(D) == [a \in Rows(D) |-> Append(D[a], NA)]

\* C7: appending a feature column that is missing for every item leaves every
\* entry of the similarity matrix as it was.
C7_MissingColumnInvariance ==
    Returned =>
        Times100(hamming_similarity(AppendMissingColumn(data_mat)))
            = pairwise_cognacy

\* A computed matrix with a missing cell and a pair that is cognate on half of
\* the glosses it can be compared on.
C7_Witness ==
    /\ Returned
    /\ \E a \in Rows(data_mat) : \E k \in Cols(data_mat) : data_mat[a][k] = NA
    /\ \E a \in Rows(data_mat) : \E b \in Rows(data_mat) :
           a # b /\ FEq(pairwise_cognacy[a][b], FloatOf(50))

(***************************************************************************)
(* Properties of the simulation                                            *)
(***************************************************************************)
Perturbed == pc = "plotting"

\* C5 as claimed: every perturbed matrix has exactly 100 on the diagonal and
\* every other entry within 0..100.
C5_PerturbedWithinBounds ==
    Perturbed =>
        \A a \in Rows(data_plus_random_matrix) :
        \A b \in Rows(data_plus_random_matrix) :
            /\ a = b => FEq(data_plus_random_matrix[a][b], FloatOf(100))
            /\ a # b => InPercentRange(data_plus_random_matrix[a][b])

SymmetricMatrix(M) == \A a \in Rows(M) : \A b \in Rows(M) : FEq(M[a][b], M[b][a])

\* C6: the noise matrix create_random_matrix returns is symmetric for either
\* kind of draw, and so the perturbed matrix of a symmetric similarity matrix
\* is symmetric.
C6_NoiseSymmetric ==
    Perturbed =>
        /\ SymmetricMatrix(random_matrix)
        /\ SymmetricMatrix(pairwise_cognacy) =>
               SymmetricMatrix(data_plus_random_matrix)

\* A draw that is not symmetric itself, applied to a symmetric matrix.
C6_Witness ==
    /\ Perturbed
    /\ Len(raw_matrix) = 2
    /\ raw_matrix[1][2] # raw_matrix[2][1]
    /\ SymmetricMatrix(pairwise_cognacy)

\* C8: off the diagonal, with v the sum of the similarity and its noise, the
\* perturbed entry is 99 when v > 100, 0 when v < 0, and v otherwise.
C8_Clamping ==
    Perturbed =>
        \A a \in Rows(pairwise_cognacy) : \A b \in Rows(pairwise_cognacy) :
            a # b =>
                LET v == FAdd(pairwise_cognacy[a][b], random_matrix[a][b])
                IN  data_plus_random_matrix[a][b] =
                        IF FGt(v, 100) THEN FloatOf(99)
                        ELSE IF FLt(v, 0) THEN FloatOf(0)
                        ELSE v

\* A sum of 105 that became 99.
C8_Witness ==
    /\ Perturbed
    /\ Len(pairwise_cognacy) = 2
    /\ FAdd(pairwise_cognacy[1][2], random_matrix[1][2]) = FloatOf(105)
    /\ data_plus_random_matrix[1][2] = FloatOf(99)

ValidSimilarityMatrix(M) ==
    /\ SymmetricMatrix(M)
    /\ \A a \in Rows(M) : FEq(M[a][a], FloatOf(100))
    /\ \A a \in Rows(M) : \A b \in Rows(M) : InPercentRange(M[a][b])

\* C9 as claimed: a run with spread 0 and mean 0 on a valid similarity matrix
\* completes, for either kind, and its perturbed matrix equals the input.
C9_ZeroSpreadIdentity ==
    (/\ distr \in Kinds /\ spread = 0 /\ mean = 0
     /\ Computed /\ ValidSimilarityMatrix(pairwise_cognacy)) =>
        /\ pc # "error"
        /\ Perturbed => data_plus_random_matrix = pairwise_cognacy

\* C10 as claimed: with a kind that is neither uniform nor binomial the run
\* never completes, and nothing is loaded, drawn or plotted on the way to the
\* error, whatever the iteration count and the way in.
C10_InvalidKindRejectedFirst ==
    distr \notin Kinds =>
        /\ pc # "done"
        /\ plots = 0 /\ raw_matrix = None
        /\ entry = "simulate" => ~Computed

\* The similarity matrix the simulate command computed from its input file.
OriginalOfInfile == Times100(hamming_similarity(data_mat))

\* C11: the simulation never modifies data_set.  No step changes it once it
\* exists; in a run of the simulate command it is, in every pass and at the
\* end of the batch, the matrix computed from the input file; and off the
\* diagonal each pass's perturbed matrix is the clamped sum of that original
\* matrix and the pass's own noise.
C11_DataSetNeverModified ==
    /\ [][Computed => pairwise_cognacy' = pairwise_cognacy]_vars
    /\ []((Computed /\ entry = "simulate") =>
            pairwise_cognacy = OriginalOfInfile)
    /\ []((Perturbed /\ entry = "simulate") =>
            \A a \in Rows(data_mat) : \A b \in Rows(data_mat) :
                a # b =>
                    LET v == FAdd(OriginalOfInfile[a][b], random_matrix[a][b])
                    IN  data_plus_random_matrix[a][b] =
                            IF FGt(v, 100) THEN FloatOf(99)
                            ELSE IF FLt(v, 0) THEN FloatOf(0)
                            ELSE v)

\* The second pass of a batch on [[100,80],[80,100]], after a first pass whose
\* noise was not zero, with noise that moves the entry 80.
C11_Witness ==
    /\ Perturbed
    /\ entry = "simulate"
    /\ i = 1 /\ plots = 1
    /\ mean # 0
    /\ Len(data_mat) = 2
    /\ OriginalOfInfile[1][2] = FloatOf(80)
    /\ data_plus_random_matrix[1][2] # FloatOf(80)

\* x lies in the interval the kind allows around the mean: [mean - spread,
\* mean + spread) for uniform, [mean - spread, mean + spread] for binomial.
WithinSpread(x) ==
    /\ ~x.nan
    /\ ~FLt(x, mean - spread)
    /\ IF distr = "uniform" THEN FLt(x, mean + spread)
       ELSE ~FGt(x, mean + spread)

\* C12: for spread >= 1 every cell of the noise before it is made symmetric
\* is an integer within [mean - spread, mean + spread) for uniform and within
\* [mean - spread, mean + spread] for binomial, and every entry of the
\* symmetric noise matrix lies within the same interval.
C12_NoiseWithinSpread ==
    (Perturbed /\ spread >= 1) =>
        LET cells == shifted(distr, mean, spread, raw_matrix)
        IN  \A a \in Rows(random_matrix) : \A b \in Rows(random_matrix) :
                /\ cells[a][b] \in Int
                /\ WithinSpread(FloatOf(cells[a][b]))
                /\ WithinSpread(random_matrix[a][b])

\* Noise with a mean that is not zero, an entry on the lower end of the
\* interval, one on its upper end, and an entry between two integers.
C12_Witness ==
    /\ Perturbed
    /\ spread >= 1 /\ mean # 0
    /\ distr = "binomial"
    /\ Len(random_matrix) = 2
    /\ random_matrix[1][1] = FloatOf(mean - spread)
    /\ random_matrix[2][2] = FloatOf(mean + spread)
    /\ random_matrix[1][2].den = 2

====
